---- MODULE Spec2Model ----
(***************************************************************************)
(* Model of app.py: a Tk desktop program that loads a 4-class chest X-ray  *)
(* classifier at start-up and offers two button callbacks,                 *)
(* upload_predict_single and batch_predict.                                *)
(*                                                                         *)
(* A file is an identifier in Files; what cv2.imread and model.predict do  *)
(* with it is fixed by Kind and Preds.  Probabilities are integers in      *)
(* 0..MaxProb (units of 1/MaxProb).  The variable ops is the trace of      *)
(* externally visible calls (message boxes, os.makedirs, datetime.now,     *)
(* open(...,'w')) made by the callback that is running or ran last.        *)
(***************************************************************************)
EXTENDS Integers, Sequences, FiniteSets, TLC

\* ---------------------------------------------------------------- bounds
NumFiles == 4
MaxBatch == 2
MaxActions == 2
MaxClock == 2
MaxProb == 2

\* ------------------------------------------------------------- constants
NumClasses == 4

CLASS_NAMES == <<"COVID", "TB", "PNEUMONIA", "NORMAL">>

CLASS_COLORS ==
  [l \in {"COVID", "TB", "PNEUMONIA", "NORMAL"} |->
     CASE l = "COVID" -> "#FF4C4C"
       [] l = "TB" -> "#FF9900"
       [] l = "PNEUMONIA" -> "#FFD700"
       [] l = "NORMAL" -> "#4CAF50"]

Files == 1..NumFiles

NoFile == 0

\* image_label before any image is shown.
NoImage == [file |-> 0, label |-> "", conf |-> 0, fill |-> ""]

\* result_label as created: text="".
NoText == [label |-> "", conf |-> 0, fg |-> ""]

NoTimestamp == 0

NoIndex == -1

\* What the libraries do with a file: cv2.imread returns None for an
\* "undecodable" file; a "badshape" file decodes (e.g. a 4-channel PNG read
\* with IMREAD_UNCHANGED) but model.predict raises on its tensor.
Kind(f) ==
  CASE f % 4 = 1 -> "ok"
    [] f % 4 = 2 -> "undecodable"
    [] f % 4 = 3 -> "ok"
    [] f % 4 = 0 -> "badshape"

ProbVectors == [1..NumClasses -> 0..MaxProb]

\* model.predict(img)[0] for the tensor of file f.
Preds(f) == [k \in 1..NumClasses |-> (f + k) % (MaxProb + 1)]

VARIABLES
  pc, handler, exc, ops, actions,
  model_loaded, window,
  image_label, result_label, listbox, progress_value, progress_maximum,
  dir_exists, files, clock,
  file_path, file_paths, results, i, timestamp, inserted, configured,
  preds, ret

vars ==
  <<pc, handler, exc, ops, actions, model_loaded, window,
    image_label, result_label, listbox, progress_value, progress_maximum,
    dir_exists, files, clock,
    file_path, file_paths, results, i, timestamp, inserted, configured,
    preds, ret>>

widgets == <<image_label, result_label, listbox, progress_value, progress_maximum>>

filesystem == <<dir_exists, files>>

locals == <<file_path, file_paths, results, i, timestamp, inserted, configured>>

infer == <<preds, ret>>

\* ------------------------------------------------------- pure functions
\* np.argmax: scan left to right, keep the first maximum (1-based here).
RECURSIVE argmax_from(_, _, _)
argmax_from(v, k, best) ==
  IF k > Len(v) THEN best
  ELSE IF v[k] > v[best] THEN argmax_from(v, k + 1, k)
  ELSE argmax_from(v, k + 1, best)

\* Faulty variant of argmax: keeps the last maximum on ties.
argmax_last(v) ==
  CHOOSE k \in 1..Len(v) :
    /\ \A j \in 1..Len(v) : v[j] <= v[k]
    /\ \A j \in (k + 1)..Len(v) : v[j] < v[k]

argmax(v) ==
  argmax_from(v, 2, 1)

\* Lines 55-57 of predict_image: reduce the vector to (label, confidence).
reduce_preds(v) ==
  [label |-> CLASS_NAMES[argmax(v)], conf |-> v[argmax(v)] * 100]

\* preprocess_image: the tensor, or None after showing "Image Error".
preprocess_image(image_path) ==
  IF Kind(image_path) = "undecodable" THEN "None" ELSE "tensor"

\* Message boxes shown while predict_image(image_path) runs.
predict_ops(image_path) ==
  IF preprocess_image(image_path) = "None" THEN <<"showerror">> ELSE <<>>

\* predict_image: status "None" for (None, None), "raise" when model.predict
\* raises, else "ok" with the (label, confidence) pair.
predict_image(image_path) ==
  IF preprocess_image(image_path) = "None"
  THEN [status |-> "None", label |-> "", conf |-> 0]
  ELSE IF Kind(image_path) = "badshape"
  THEN [status |-> "raise", label |-> "", conf |-> 0]
  ELSE [status |-> "ok",
        label |-> reduce_preds(Preds(image_path)).label,
        conf |-> reduce_preds(Preds(image_path)).conf]

\* Ordered selections the multi-file picker can return.
Selections ==
  {s \in UNION {[1..n -> Files] : n \in 0..MaxBatch} :
     \A a, b \in 1..Len(s) : a # b => s[a] # s[b]}

NoResult == [label |-> "", conf |-> 0]

Header == <<"Image", "Prediction", "Confidence">>

\* -------------------------------------------------------------- start-up
Init ==
  /\ pc = "start"
  /\ handler = "none"
  /\ exc = "none"
  /\ ops = <<>>
  /\ actions = 0
  /\ model_loaded = FALSE
  /\ window = FALSE
  /\ image_label = NoImage
  /\ result_label = NoText
  /\ listbox = <<>>
  /\ progress_value = 0
  /\ progress_maximum = 100
  /\ dir_exists \in BOOLEAN
  /\ files = {}
  /\ clock = 1
  /\ file_path = NoFile
  /\ file_paths = <<>>
  /\ results = <<>>
  /\ i = 0
  /\ timestamp = NoTimestamp
  /\ inserted = NoIndex
  /\ configured = NoIndex
  /\ preds = <<>>
  /\ ret = NoResult

\* load_model succeeds; the rest of the module builds the window and enters
\* root.mainloop().
LoadModelOk ==
  /\ pc = "start"
  /\ model_loaded' = TRUE
  /\ window' = TRUE
  /\ pc' = "idle"
  /\ UNCHANGED <<handler, exc, ops, actions, widgets, filesystem, clock, locals, infer>>

\* Faulty variant of LoadModelFail: the except block does not re-raise.
LoadModelFail_swallow ==
  /\ pc = "start"
  /\ ops' = <<"showerror">>
  /\ window' = TRUE
  /\ pc' = "idle"
  /\ UNCHANGED <<handler, exc, actions, model_loaded, widgets, filesystem, clock, locals, infer>>

\* load_model raises: show "Model Error", re-raise at module level.
LoadModelFail ==
  /\ pc = "start"
  /\ ops' = <<"showerror">>
  /\ exc' = "LoadError"
  /\ pc' = "terminated"
  /\ UNCHANGED <<handler, actions, model_loaded, window, widgets, filesystem, clock, locals, infer>>

\* ------------------------------------------------- upload_predict_single
\* overlay_prediction + image_label.config + result_label.config.
show_single(fp, r) ==
  /\ image_label' = [file |-> fp, label |-> r.label, conf |-> r.conf,
                     fill |-> CLASS_COLORS[r.label]]
  /\ result_label' = [label |-> r.label, conf |-> r.conf, fg |-> CLASS_COLORS[r.label]]

\* Faulty variant of upload_predict_single: clears both labels when
\* predict_image returns (None, None).
upload_predict_single_stale(fp) ==
  /\ pc = "idle"
  /\ actions < MaxActions
  /\ actions' = actions + 1
  /\ handler' = "single"
  /\ file_path' = fp
  /\ IF fp = NoFile
     THEN /\ ops' = <<>>
          /\ pc' = "returned"
          /\ UNCHANGED <<exc, image_label, result_label>>
     ELSE /\ ops' = predict_ops(fp)
          /\ IF predict_image(fp).status = "raise"
             THEN /\ exc' = "InferenceError"
                  /\ pc' = "raised"
                  /\ UNCHANGED <<image_label, result_label>>
             ELSE IF predict_image(fp).status = "None"
             THEN /\ pc' = "returned"
                  /\ image_label' = NoImage
                  /\ result_label' = NoText
                  /\ UNCHANGED exc
             ELSE /\ show_single(fp, predict_image(fp))
                  /\ pc' = "returned"
                  /\ UNCHANGED exc
  /\ UNCHANGED <<model_loaded, window, listbox, progress_value, progress_maximum,
                 filesystem, clock, file_paths, results, i, timestamp,
                 inserted, configured, infer>>

upload_predict_single(fp) ==
  /\ pc = "idle"
  /\ actions < MaxActions
  /\ actions' = actions + 1
  /\ handler' = "single"
  /\ file_path' = fp
  /\ IF fp = NoFile
     THEN /\ ops' = <<>>
          /\ pc' = "returned"
          /\ UNCHANGED <<exc, image_label, result_label>>
     ELSE /\ ops' = predict_ops(fp)
          /\ IF predict_image(fp).status = "raise"
             THEN /\ exc' = "InferenceError"
                  /\ pc' = "raised"
                  /\ UNCHANGED <<image_label, result_label>>
             ELSE IF predict_image(fp).status = "None"
             THEN /\ pc' = "returned"
                  /\ UNCHANGED <<exc, image_label, result_label>>
             ELSE /\ show_single(fp, predict_image(fp))
                  /\ pc' = "returned"
                  /\ UNCHANGED exc
  /\ UNCHANGED <<model_loaded, window, listbox, progress_value, progress_maximum,
                 filesystem, clock, file_paths, results, i, timestamp,
                 inserted, configured, infer>>

UploadPredictSingle ==
  \E fp \in Files \cup {NoFile} : upload_predict_single(fp)

\* ---------------------------------------------------------- batch_predict
\* Faulty variant of batch_predict_cancel: the widgets are reset before the
\* selection is tested.
batch_predict_cancel_reset ==
  /\ ops' = <<>>
  /\ pc' = "returned"
  /\ progress_value' = 0
  /\ progress_maximum' = 0
  /\ listbox' = <<>>
  /\ UNCHANGED <<filesystem, clock, results, i, timestamp, inserted, configured>>

\* Lines 89-90: empty selection, return.
batch_predict_cancel ==
  /\ ops' = <<>>
  /\ pc' = "returned"
  /\ UNCHANGED <<listbox, progress_value, progress_maximum, filesystem, clock,
                 results, i, timestamp, inserted, configured>>

\* Faulty variant of batch_predict_begin: no makedirs and no timestamp
\* before the loop.
batch_predict_begin_lazy(fps) ==
  /\ results' = <<>>
  /\ progress_value' = 0
  /\ progress_maximum' = Len(fps)
  /\ listbox' = <<>>
  /\ ops' = <<>>
  /\ i' = 0
  /\ inserted' = NoIndex
  /\ configured' = NoIndex
  /\ pc' = "loop"
  /\ UNCHANGED <<dir_exists, files, clock, timestamp>>

\* Lines 91-98: reset the widgets, create the folder, name the report.
batch_predict_begin(fps) ==
  /\ results' = <<>>
  /\ progress_value' = 0
  /\ progress_maximum' = Len(fps)
  /\ listbox' = <<>>
  /\ dir_exists' = TRUE
  /\ \E t \in clock..MaxClock :
       /\ clock' = t
       /\ timestamp' = t
  /\ ops' = <<"makedirs", "now">>
  /\ i' = 0
  /\ inserted' = NoIndex
  /\ configured' = NoIndex
  /\ pc' = "loop"
  /\ UNCHANGED files

batch_predict(fps) ==
  /\ pc = "idle"
  /\ actions < MaxActions
  /\ actions' = actions + 1
  /\ handler' = "batch"
  /\ file_paths' = fps
  /\ IF fps = <<>> THEN batch_predict_cancel ELSE batch_predict_begin(fps)
  /\ UNCHANGED <<exc, model_loaded, window, image_label, result_label, file_path, infer>>

BatchPredict ==
  \E fps \in Selections : batch_predict(fps)

\* Lines 99-107: one iteration of the for loop.  listbox.itemconfig(i-1)
\* raises TclError ("item number out of range") when the list has no row i-1.
batch_predict_iter ==
  /\ pc = "loop"
  /\ i < Len(file_paths)
  /\ i' = i + 1
  /\ LET fp == file_paths[i + 1]
         r == predict_image(fp)
         row == <<fp, r.label, r.conf>>
         box == Append(listbox, [text |-> row, fg |-> ""])
     IN /\ ops' = ops \o predict_ops(fp)
        /\ IF r.status = "None"
           THEN UNCHANGED <<results, listbox, progress_value, exc, pc, inserted, configured>>
           ELSE IF r.status = "raise"
           THEN /\ exc' = "InferenceError"
                /\ pc' = "raised"
                /\ UNCHANGED <<results, listbox, progress_value, inserted, configured>>
           ELSE /\ results' = Append(results, row)
                /\ inserted' = Len(box) - 1
                /\ configured' = (i + 1) - 1
                /\ IF (i + 1) - 1 < Len(box)
                   THEN /\ listbox' = [box EXCEPT ![i + 1].fg = CLASS_COLORS[r.label]]
                        /\ progress_value' = i + 1
                        /\ UNCHANGED <<exc, pc>>
                   ELSE /\ listbox' = box
                        /\ exc' = "TclError"
                        /\ pc' = "raised"
                        /\ UNCHANGED progress_value
  /\ UNCHANGED <<handler, actions, model_loaded, window, image_label, result_label,
                 progress_maximum, filesystem, clock, file_path, file_paths,
                 timestamp, infer>>

\* Lines 108-112: write the report (mode 'w'), then the completion message.
batch_predict_write ==
  /\ pc = "loop"
  /\ i = Len(file_paths)
  /\ files' = {r \in files : r.name # timestamp}
                \cup {[name |-> timestamp, header |-> Header, rows |-> results]}
  /\ ops' = ops \o <<"write", "showinfo">>
  /\ pc' = "returned"
  /\ UNCHANGED <<handler, exc, actions, model_loaded, window, widgets, dir_exists,
                 clock, locals, infer>>

\* The callback is over: it returned, or its exception reached Tk's
\* callback wrapper, and root.mainloop() waits for the next event.
mainloop ==
  /\ pc \in {"returned", "raised"}
  /\ pc' = "idle"
  /\ handler' = "none"
  /\ exc' = "none"
  /\ ops' = <<>>
  /\ file_path' = NoFile
  /\ file_paths' = <<>>
  /\ results' = <<>>
  /\ i' = 0
  /\ timestamp' = NoTimestamp
  /\ inserted' = NoIndex
  /\ configured' = NoIndex
  /\ UNCHANGED <<actions, model_loaded, window, widgets, filesystem, clock, infer>>

Next ==
  \/ LoadModelOk
  \/ LoadModelFail
  \/ UploadPredictSingle
  \/ BatchPredict
  \/ batch_predict_iter
  \/ batch_predict_write
  \/ mainloop

Spec == Init /\ [][Next]_vars

\* ------------------------------------- predict_image on any model output
InitInfer ==
  /\ pc = "predict"
  /\ handler = "none"
  /\ exc = "none"
  /\ ops = <<>>
  /\ actions = 0
  /\ model_loaded = TRUE
  /\ window = TRUE
  /\ image_label = NoImage
  /\ result_label = NoText
  /\ listbox = <<>>
  /\ progress_value = 0
  /\ progress_maximum = 100
  /\ dir_exists = FALSE
  /\ files = {}
  /\ clock = 1
  /\ file_path = NoFile
  /\ file_paths = <<>>
  /\ results = <<>>
  /\ i = 0
  /\ timestamp = NoTimestamp
  /\ inserted = NoIndex
  /\ configured = NoIndex
  /\ preds \in ProbVectors
  /\ ret = NoResult

\* Lines 55-57 applied to the vector model.predict returned.
predict_image_reduce ==
  /\ pc = "predict"
  /\ ret' = reduce_preds(preds)
  /\ pc' = "predicted"
  /\ UNCHANGED <<handler, exc, ops, actions, model_loaded, window, widgets,
                 filesystem, clock, locals, preds>>

NextInfer ==
  predict_image_reduce

SpecInfer == InitInfer /\ [][NextInfer]_vars

\* ------------------------------------------------------------ properties
Count(seq, x) ==
  Cardinality({k \in DOMAIN seq : seq[k] = x})

\* The selected files that decode and classify, in selection order.
Succeeded(fps) ==
  SelectSeq(fps, LAMBDA f : Kind(f) = "ok")

BatchOver ==
  handler = "batch" /\ file_paths # <<>> /\ pc \in {"returned", "raised"}

\* C1: a batch over N selected files of which K fail decoding (and none
\* fails otherwise) completes, and the report it wrote holds exactly the
\* N-K successfully processed files, one row each, in selection order.
C1_ReportRows ==
  (BatchOver /\ \A k \in DOMAIN file_paths : Kind(file_paths[k]) # "badshape")
    => /\ pc = "returned"
       /\ \E r \in files :
            /\ r.name = timestamp
            /\ Len(r.rows) = Len(Succeeded(file_paths))
            /\ \A k \in DOMAIN r.rows : r.rows[k][1] = Succeeded(file_paths)[k]

\* C2: a batch with a non-empty selection writes the report exactly once,
\* only after every selected file was processed, and with no success the
\* file holds the header row only.
C2_WrittenOnce ==
  /\ BatchOver => Count(ops, "write") = 1
  /\ (handler = "batch" /\ Count(ops, "write") > 0) => i = Len(file_paths)
  /\ (BatchOver /\ Succeeded(file_paths) = <<>>)
       => \E r \in files : r.name = timestamp /\ r.header = Header /\ r.rows = <<>>

\* C3: the progress maximum is N and, when the batch completes, the
\* progress value is N whichever files were skipped.
C3_ProgressReachesN ==
  /\ (handler = "batch" /\ file_paths # <<>>) => progress_maximum = Len(file_paths)
  /\ (BatchOver /\ pc = "returned") => progress_value = Len(file_paths)

\* C4: a failure of model.predict never escapes the callback; in batch mode
\* the file is skipped, the rest is processed and the report is written.
C4_InferenceFailureHandled ==
  /\ exc # "InferenceError"
  /\ BatchOver => /\ i = Len(file_paths)
                  /\ Count(ops, "write") = 1

\* C5: a cancelled picker (empty selection) in either callback raises no
\* notification and leaves the image, the result text, the list, the
\* progress value and maximum and the file system unchanged.
C5_CancelIsNoOp ==
  [][(/\ pc = "idle"
      /\ \/ handler' = "single" /\ file_path' = NoFile
         \/ handler' = "batch" /\ file_paths' = <<>>)
       => /\ ops' = <<>>
          /\ exc' = "none"
          /\ pc' = "returned"
          /\ UNCHANGED <<image_label, result_label, listbox, progress_value,
                         progress_maximum, dir_exists, files>>]_vars

C5_Witness ==
  /\ handler = "batch"
  /\ file_paths = <<>>
  /\ pc = "returned"
  /\ listbox # <<>>
  /\ progress_value > 0
  /\ files # {}

\* C6: in single mode an undecodable file raises exactly one error
\* notification and nothing else: image_label and result_label keep their
\* content, nothing escapes, and the program is back at the event loop with
\* everything but the notification as it was before the action.
C6_SingleDecodeFailure ==
  [][/\ (/\ pc = "idle"
         /\ handler' = "single"
         /\ file_path' # NoFile
         /\ Kind(file_path') = "undecodable")
          => /\ ops' = <<"showerror">>
             /\ exc' = "none"
             /\ pc' = "returned"
             /\ UNCHANGED <<widgets, filesystem, model_loaded, window>>
     /\ (/\ pc = "returned"
         /\ handler = "single"
         /\ file_path # NoFile
         /\ Kind(file_path) = "undecodable")
          => /\ pc' = "idle"
             /\ UNCHANGED <<widgets, filesystem, model_loaded, window>>]_vars

C6_Witness ==
  /\ handler = "single"
  /\ file_path # NoFile
  /\ Kind(file_path) = "undecodable"
  /\ pc = "returned"
  /\ ops = <<"showerror">>
  /\ image_label # NoImage

\* C7: for every vector of 4 probabilities, predict_image returns the label
\* at the lowest index holding the maximum, and that entry times 100.
C7_FirstMaxLabel ==
  pc = "predicted"
    => \E k \in 1..NumClasses :
         /\ \A j \in 1..NumClasses : preds[j] <= preds[k]
         /\ \A j \in 1..(k - 1) : preds[j] < preds[k]
         /\ ret.label = CLASS_NAMES[k]
         /\ ret.conf = preds[k] * 100
         /\ ret.label \in {"COVID", "TB", "PNEUMONIA", "NORMAL"}

C7_Witness ==
  /\ pc = "predicted"
  /\ preds[1] < preds[2]
  /\ preds[2] = preds[4]
  /\ preds[3] < preds[2]
  /\ ret.label = "TB"

\* C8: when loading the model fails, one error notification is shown and
\* the process is over: no window, no callback, no report.
C8_LoadFailureIsFatal ==
  (~model_loaded /\ pc # "start")
    => /\ pc = "terminated"
       /\ ops = <<"showerror">>
       /\ ~window
       /\ handler = "none"
       /\ actions = 0
       /\ files = {}
       /\ widgets = <<NoImage, NoText, <<>>, 0, 100>>

C8_Witness ==
  /\ pc = "terminated"
  /\ ~model_loaded
  /\ ops = <<"showerror">>

\* C9 as stated: while files remain to be processed, the report timestamp
\* has not been computed and the destination directory has not been created.
C9_Original ==
  (handler = "batch" /\ pc = "loop" /\ i < Len(file_paths))
    => /\ Count(ops, "makedirs") = 0
       /\ Count(ops, "now") = 0
       /\ timestamp = NoTimestamp

\* C9 amended: the directory is created and the timestamp computed once,
\* before the first file is processed; the loop touches the file system no
\* further; the report is written only after the last file was processed.
C9_Amended ==
  (handler = "batch" /\ file_paths # <<>>)
    => /\ Len(ops) >= 2
       /\ ops[1] = "makedirs"
       /\ ops[2] = "now"
       /\ Count(ops, "makedirs") = 1
       /\ Count(ops, "now") = 1
       /\ dir_exists
       /\ timestamp # NoTimestamp
       /\ (pc = "loop" \/ pc = "raised") => Count(ops, "write") = 0
       /\ Count(ops, "write") > 0
            => /\ i = Len(file_paths)
               /\ pc = "returned"
               /\ Count(ops, "write") = 1

C9_Witness ==
  /\ handler = "batch"
  /\ pc = "loop"
  /\ i = 0
  /\ Len(file_paths) = 2
  /\ ops = <<"makedirs", "now">>
  /\ timestamp # NoTimestamp

\* C10: the list mirrors the accumulated rows, and the index passed to
\* itemconfig is an existing row of the list, the one just inserted.
C10_ItemconfigTargetsInsertedRow ==
  handler = "batch"
    => /\ Len(listbox) = Len(results)
       /\ \A k \in DOMAIN listbox : listbox[k].text = results[k]
       /\ inserted # NoIndex
            => /\ configured = inserted
               /\ configured < Len(listbox)

====
